---- MODULE Spec2Model ----
(***************************************************************************)
(* Model of the dnstt client: the Tunnel (client/tunnel.go), which brings  *)
(* up five nested layer handles and bridges local TCP connections onto     *)
(* smux streams, and the Outbound (client package), whose Start binds the  *)
(* listener, runs the bring-up and then accepts connections forever.       *)
(*                                                                         *)
(* Resources opened by the code (sockets, sessions, channels) are entries  *)
(* of the table `opened`; a handle of the Tunnel holds the index of the    *)
(* resource it refers to, or Nil.  Every Close() the code calls on a       *)
(* resource is appended to `closeLog`.                                     *)
(***************************************************************************)
EXTENDS Integers, Sequences, FiniteSets, TLC

\* ------------------------------------------------------------------ bounds
MaxEndpoints == 1    \* length of a non-empty Resolvers / TunnelServers list
MaxCalls == 1        \* Tunnel.Initiate* calls made by a direct user of the Tunnel
MaxCloseErrs == 1     \* Close() calls of Tunnel.Close that return an error, all together
MaxCloses == 2       \* Tunnel.Close calls made by a direct user of the Tunnel
MaxConns == 2        \* local connections the accept loop accepts
MaxCapacity == 150    \* largest dnsNameCapacity of a tunnel domain
MaxEvents == 2       \* inputs of the serving phase, all together: failed accepts,
                     \* failed OpenStreams, bytes written and closes by the peers
                     \* of the bridges, I/O errors in the copy tasks

\* --------------------------------------------------------------- constants
Nil == 0

ResolverTypeUDP == "udp"
ResolverTypeDOT == "dot"
ResolverTypeDOH == "doh"
ResolverTypes == {ResolverTypeUDP, ResolverTypeDOT, ResolverTypeDOH}

\* The layer handles of the Tunnel struct, in the order of the bring-up.
Layers == <<"resolverConn", "dnsPacketConn", "kcpConn", "noiseChannel", "smuxSession">>
LayerSet == {Layers[i] : i \in 1..Len(Layers)}
Rank(l) == CHOOSE i \in 1..Len(Layers) : Layers[i] = l

\* The bring-up stages, in the order Outbound.Start runs them.
Stages == <<"InitiateResolverConnection", "InitiateDNSPacketConn", "InitiateKCPConn",
            "InitiateNoiseChannel", "InitiateSmuxSession">>
StageSet == {Stages[i] : i \in 1..Len(Stages)}

VARIABLES
    o,          \* the Outbound: its Resolvers and TunnelServers lists
    pc,         \* position of Outbound.Start ("api": the Tunnel is driven directly)
    ln,         \* the local TCP listener: "none", "open", "closed"
    startRet,   \* how Start ended: "none", "err", "panic"
    startErr,   \* the error Start returned
    tunnel,     \* the Tunnel struct
    opened,     \* the resources opened so far: opened[r] is the layer of resource r
    closeLog,   \* one entry per Tunnel.Close call: the Close() calls it made, in
                \* order, each with the resource and the error returned
    invoked,    \* the bring-up operations invoked so far, with what each returned
    acceptErrs, \* failed accepts so far
    afterErr,   \* connections accepted after a failed accept
    nextSid,    \* the next smux stream id of the session
    br          \* the bridges: one per accepted connection

vars == <<o, pc, ln, startRet, startErr, tunnel, opened, closeLog, invoked,
          acceptErrs, afterErr, nextSid, br>>

\* ------------------------------------------------------------------ Tunnel

\* NewTunnel: only the configuration is stored, every handle is nil.
NewTunnel(resolverType) ==
    [ResolverType |-> resolverType, addr |-> FALSE,
     resolverConn |-> Nil, dnsPacketConn |-> Nil, kcpConn |-> Nil,
     noiseChannel |-> Nil, smuxSession |-> Nil]

NoTunnel == NewTunnel(ResolverTypeUDP)

\* The result of a Tunnel operation: the tunnel and the resource table after it,
\* and what the call did: "nil" (success), "err" (error returned), "panic".
Result(t, op, ret) == [t |-> t, opened |-> op, ret |-> ret]

\* A resource of layer l is opened: it gets the next index of the table.
Open(op, l) == Append(op, l)
NewRid(op) == Len(op) + 1

ResolverOutcomes == {"ok", "resolveErr", "listenErr"}

\* InitiateResolverConnection storing the resolved address before net.ListenUDP.
InitiateResolverConnectionAddrFirst(t, op, out) ==
    IF t.ResolverType = ResolverTypeUDP
    THEN IF out = "ok"
         THEN Result([t EXCEPT !.resolverConn = NewRid(op), !.addr = TRUE],
                     Open(op, "resolverConn"), "nil")
         ELSE IF out = "listenErr"
         THEN Result([t EXCEPT !.addr = TRUE], op, "err")
         ELSE Result(t, op, "err")
    ELSE Result(t, op, "err")

\* InitiateResolverConnection: net.ResolveUDPAddr, net.ListenUDP, and only then
\* t.resolverConn and t.addr; any other resolver type is an error.
InitiateResolverConnection(t, op, out) ==
    IF t.ResolverType = ResolverTypeUDP
    THEN IF out = "ok"
         THEN Result([t EXCEPT !.resolverConn = NewRid(op), !.addr = TRUE],
                     Open(op, "resolverConn"), "nil")
         ELSE Result(t, op, "err")
    ELSE Result(t, op, "err")

InitiateDNSPacketConn(t, op) ==
    IF t.ResolverType = ResolverTypeUDP
    THEN Result([t EXCEPT !.dnsPacketConn = NewRid(op)], Open(op, "dnsPacketConn"), "nil")
    ELSE Result(t, op, "err")

KcpOutcomes == {"ok", "newConnErr", "mtuRefused"}

\* What InitiateKCPConn does once conn.SetMtu(mtu) has returned false.
SetMtuRefused(t, op) == Result(t, op, "panic")

\* kcp.NewConn2 opens the session; the handle is stored only after SetMtu.
InitiateKCPConn(t, op, out) ==
    IF out = "newConnErr"
    THEN Result(t, op, "err")
    ELSE IF out = "mtuRefused"
         THEN SetMtuRefused(t, Open(op, "kcpConn"))
         ELSE Result([t EXCEPT !.kcpConn = NewRid(op)], Open(op, "kcpConn"), "nil")

NoiseOutcomes == {"ok", "handshakeErr"}

\* noise.NewClient, then t.kcpConn.GetConv() for the log line, then the store.
InitiateNoiseChannel(t, op, out) ==
    IF out = "handshakeErr"
    THEN Result(t, op, "err")
    ELSE IF t.kcpConn = Nil
         THEN Result(t, Open(op, "noiseChannel"), "panic")
         ELSE Result([t EXCEPT !.noiseChannel = NewRid(op)],
                     Open(op, "noiseChannel"), "nil")

SmuxOutcomes == {"ok", "smuxErr"}

\* smux.Client, then the store, then t.kcpConn.GetConv() for the log line.
InitiateSmuxSession(t, op, out) ==
    IF out = "smuxErr"
    THEN Result(t, op, "err")
    ELSE Result([t EXCEPT !.smuxSession = NewRid(op)], Open(op, "smuxSession"),
                IF t.kcpConn = Nil THEN "panic" ELSE "nil")

\* The handles Tunnel.Close looks at, in the order it looks at them.
CloseSequence(t) ==
    <<t.resolverConn, t.dnsPacketConn, t.kcpConn, t.noiseChannel, t.smuxSession>>

\* Tunnel.Close: Close() is called on every handle that is not nil; the errors
\* are discarded and nil is returned.  The value is the resources closed, in order.
IsSet(h) == h # Nil
Present(t) == SelectSeq(CloseSequence(t), IsSet)

\* h.Close() on a resource of the set `failing` returns an error.
CloseOne(h, failing) == [rid |-> h, err |-> IF h \in failing THEN "err" ELSE "nil"]

\* A Close that returns at the first Close() that fails.
CloseUntilError(t, failing) ==
    LET hs == Present(t)
        bad == {i \in 1..Len(hs) : hs[i] \in failing}
        n == IF bad = {} THEN Len(hs) ELSE CHOOSE i \in bad : \A j \in bad : i <= j
    IN  [i \in 1..n |-> CloseOne(hs[i], failing)]

\* Tunnel.Close: `_ = h.Close()` for every handle that is not nil, in the order
\* of CloseSequence, whatever each Close() returns.
Close(t, failing) ==
    [i \in 1..Len(Present(t)) |-> CloseOne(Present(t)[i], failing)]

\* The errors the Close() calls made so far have returned.
RECURSIVE CloseErrs(_)
CloseErrs(log) ==
    IF log = <<>> THEN 0
    ELSE Len(SelectSeq(Head(log), LAMBDA e : e.err = "err")) + CloseErrs(Tail(log))

\* The sets of handles of t whose Close() can fail in the next Tunnel.Close.
CloseFailures(t, log) ==
    {F \in SUBSET {Present(t)[i] : i \in 1..Len(Present(t))} :
        CloseErrs(log) + Cardinality(F) <= MaxCloseErrs}

\* The outcomes the libraries can give to a stage.
Outcomes(stage) ==
    CASE stage = "InitiateResolverConnection" -> ResolverOutcomes
      [] stage = "InitiateDNSPacketConn" -> {"ok"}
      [] stage = "InitiateKCPConn" -> KcpOutcomes
      [] stage = "InitiateNoiseChannel" -> NoiseOutcomes
      [] stage = "InitiateSmuxSession" -> SmuxOutcomes

Initiate(stage, t, op, out) ==
    CASE stage = "InitiateResolverConnection" -> InitiateResolverConnection(t, op, out)
      [] stage = "InitiateDNSPacketConn" -> InitiateDNSPacketConn(t, op)
      [] stage = "InitiateKCPConn" -> InitiateKCPConn(t, op, out)
      [] stage = "InitiateNoiseChannel" -> InitiateNoiseChannel(t, op, out)
      [] stage = "InitiateSmuxSession" -> InitiateSmuxSession(t, op, out)

\* ---------------------------------------------------------- Outbound.Start

\* NewOutbound: the two lists are stored as given, nothing is validated.
NewOutbound(resolvers, tunnelServers) ==
    [Resolvers |-> resolvers, TunnelServers |-> tunnelServers]

\* The lists Start distinguishes: the empty one, and the ones with an element [0].
Lists(S, n) == {<<>>} \cup [1..n -> S]

\* The Outbounds Start can be called on.  ResolverType is an exported field, so a
\* Resolver of a kind NewResolver refuses can still be handed to NewOutbound.
Outbounds ==
    {NewOutbound(rs, ts) : rs \in Lists({ResolverTypeUDP, ResolverTypeDOT}, MaxEndpoints),
                           ts \in Lists({"server"}, MaxEndpoints)}

\* A bridge: the goroutine Start spawns for an accepted connection and the
\* Tunnel.Handle call it makes.
\*   st      "free", "spawned", "copying", "openFailed", "done"
\*   sid     the smux stream of the bridge (Nil: none)
\*   sCloses stream.Close() calls made by the bridge
\*   l2s     the local-to-stream task: "idle", "copy", "closing", "done"
\*   s2l     the stream-to-local task: "idle", "copy", "closing", "done"
\*   l2sErr, s2lErr   the error io.Copy returned to the task ("none": still copying)
\*   lWritten, lEOF   bytes the local peer wrote to lconn; it closed its write half
\*   rWritten, rFin   bytes the remote wrote to the stream; it closed the stream
\*   lRead, sRead     bytes the tasks have read from lconn / from the stream
\*   sOut, lOut       the bytes written to the stream / to lconn, in order
\*   rdClosed, wrClosed, closed   lconn.CloseRead(), CloseWrite(), Close() were called
\*   reported         the error Handle returned was logged by the goroutine
FreeBridge ==
    [st |-> "free", sid |-> Nil, sCloses |-> 0,
     l2s |-> "idle", s2l |-> "idle", l2sErr |-> "none", s2lErr |-> "none",
     lWritten |-> 0, lEOF |-> FALSE, rWritten |-> 0, rFin |-> FALSE,
     lRead |-> 0, sRead |-> 0, sOut |-> <<>>, lOut |-> <<>>,
     rdClosed |-> FALSE, wrClosed |-> FALSE, closed |-> FALSE, reported |-> FALSE]

Conns == 1..MaxConns

InitCommon ==
    /\ ln = "none"
    /\ startRet = "none"
    /\ startErr = "none"
    /\ closeLog = <<>>
    /\ acceptErrs = 0
    /\ afterErr = {}
    /\ nextSid = 1
    /\ br = [c \in Conns |-> FreeBridge]

\* Start is about to run on an Outbound built by NewOutbound.
Init ==
    /\ o \in Outbounds
    /\ pc = "ResolveTCPAddr"
    /\ tunnel = NoTunnel
    /\ opened = <<>>
    /\ invoked = <<>>
    /\ InitCommon

\* The deferred calls of Start, run when it returns or panics: tunnel.Close()
\* if the tunnel was created (t is then the tunnel), and then ln.Close().
Deferred(t, hasTunnel) ==
    /\ IF hasTunnel
       THEN \E failing \in CloseFailures(t, closeLog) :
                closeLog' = Append(closeLog, Close(t, failing))
       ELSE closeLog' = closeLog
    /\ ln' = "closed"

\* net.ResolveTCPAddr(bind): a bad address makes Start return before it listens.
StartResolveTCPAddr ==
    /\ pc = "ResolveTCPAddr"
    /\ \E ok \in BOOLEAN :
         IF ok
         THEN pc' = "ListenTCP" /\ UNCHANGED <<startRet, startErr>>
         ELSE pc' = "returned" /\ startRet' = "err" /\ startErr' = "invalid local address"
    /\ UNCHANGED <<o, ln, tunnel, opened, closeLog, invoked, acceptErrs, afterErr,
                   nextSid, br>>

\* net.ListenTCP, then defer ln.Close().
StartListenTCP ==
    /\ pc = "ListenTCP"
    /\ \E ok \in BOOLEAN :
         IF ok
         THEN pc' = "NewTunnel" /\ ln' = "open" /\ UNCHANGED <<startRet, startErr>>
         ELSE /\ pc' = "returned" /\ startRet' = "err"
              /\ startErr' = "opening local listener" /\ UNCHANGED ln
    /\ UNCHANGED <<o, tunnel, opened, closeLog, invoked, acceptErrs, afterErr,
                   nextSid, br>>

\* What indexing element [0] of a list of n elements does.
IndexFirst(n) == IF n = 0 THEN "panic" ELSE "nil"

\* o.Resolvers[0], o.TunnelServers[0], NewTunnel, defer tunnel.Close().
StartNewTunnel ==
    /\ pc = "NewTunnel"
    /\ IF IndexFirst(Len(o.Resolvers)) = "panic" \/ IndexFirst(Len(o.TunnelServers)) = "panic"
       THEN /\ pc' = "panicked" /\ startRet' = "panic"
            /\ startErr' = "index out of range"
            /\ Deferred(tunnel, FALSE)
            /\ UNCHANGED tunnel
       ELSE /\ tunnel' = NewTunnel(o.Resolvers[1])
            /\ pc' = Stages[1]
            /\ UNCHANGED <<startRet, startErr, ln, closeLog>>
    /\ UNCHANGED <<o, opened, invoked, acceptErrs, afterErr, nextSid, br>>

StageIndex(stage) == CHOOSE i \in 1..Len(Stages) : Stages[i] = stage

\* Start with the error checks after the stages left out.
StartNextPcIgnoringErr(stage, ret) ==
    IF StageIndex(stage) < Len(Stages) THEN Stages[StageIndex(stage) + 1] ELSE "Serving"

\* Where Start goes after the stage returned ret: to the next stage (the accept
\* loop after the last one) on success, out of Start on an error or a panic.
StartNextPc(stage, ret) ==
    IF ret = "nil"
    THEN IF StageIndex(stage) < Len(Stages)
         THEN Stages[StageIndex(stage) + 1]
         ELSE "Serving"
    ELSE IF ret = "err" THEN "returned" ELSE "panicked"

\* An entry of `invoked`: the operation, what it returned, and who called it.
Invocation(stage, ret, by) == [op |-> stage, ret |-> ret, by |-> by]

\* One bring-up stage of Start: the call, and the return or the panic if it failed.
StartStage(stage) ==
    /\ pc = stage
    /\ \E out \in Outcomes(stage) :
         LET r == Initiate(stage, tunnel, opened, out) IN
         /\ tunnel' = r.t
         /\ opened' = r.opened
         /\ invoked' = Append(invoked, Invocation(stage, r.ret, "Start"))
         /\ pc' = StartNextPc(stage, r.ret)
         /\ IF pc' \in {"returned", "panicked"}
            THEN /\ startRet' = IF pc' = "returned" THEN "err" ELSE "panic"
                 /\ startErr' = stage
                 /\ Deferred(r.t, TRUE)
            ELSE UNCHANGED <<startRet, startErr, ln, closeLog>>
    /\ UNCHANGED <<o, acceptErrs, afterErr, nextSid, br>>

StartInitiateResolverConnection == StartStage("InitiateResolverConnection")
StartInitiateDNSPacketConn == StartStage("InitiateDNSPacketConn")
StartInitiateKCPConn == StartStage("InitiateKCPConn")
StartInitiateNoiseChannel == StartStage("InitiateNoiseChannel")
StartInitiateSmuxSession == StartStage("InitiateSmuxSession")

\* The inputs a bridge has had: bytes and closes of its peers, I/O errors.
Count(p) == IF p THEN 1 ELSE 0
EventsOf(b) ==
    b.lWritten + b.rWritten + Count(b.lEOF) + Count(b.rFin) + Count(b.st = "openFailed")
    + Count(b.l2sErr = "other") + Count(b.s2lErr = "other")

RECURSIVE Events(_, _)
Events(b, n) == IF n = 0 THEN 0 ELSE EventsOf(b[n]) + Events(b, n - 1)

\* One more input fits the bound.
CanHappen == acceptErrs + Events(br, MaxConns) < MaxEvents


\* The accept loop returning on a failed accept.
AfterAcceptErrorReturn == "returned"

\* Where the accept loop goes after ln.Accept() returned an error: `continue`.
AfterAcceptError == "Serving"

AcceptFail ==
    /\ pc = "Serving"
    /\ CanHappen
    /\ acceptErrs' = acceptErrs + 1
    /\ pc' = AfterAcceptError
    /\ UNCHANGED <<o, ln, startRet, startErr, tunnel, opened, closeLog, invoked,
                   afterErr, nextSid, br>>

\* The goroutine Start spawns for the accepted connection.
Spawn(b) == [b EXCEPT !.st = "spawned"]

AcceptOk ==
    /\ pc = "Serving"
    /\ \E c \in Conns :
         /\ br[c].st = "free"
         /\ \A d \in Conns : d < c => br[d].st # "free"
         /\ br' = [br EXCEPT ![c] = Spawn(br[c])]
         /\ afterErr' = IF acceptErrs > 0 THEN afterErr \cup {c} ELSE afterErr
    /\ UNCHANGED <<o, pc, ln, startRet, startErr, tunnel, opened, closeLog, invoked,
                   acceptErrs, nextSid>>

\* ------------------------------------------------------------ Tunnel.Handle

\* The goroutine without its deferred local.Close().
HandleOpenFailedLeak(b) == [b EXCEPT !.st = "openFailed", !.reported = TRUE]

\* Handle when t.smuxSession.OpenStream() failed: it returns the error, the
\* goroutine logs it and its deferred local.Close() closes the connection.
HandleOpenFailed(b) ==
    [b EXCEPT !.st = "openFailed", !.reported = TRUE, !.closed = TRUE]

\* Tunnel.Close has called t.smuxSession.Close(): the session refuses new
\* streams, and the reads and writes on its streams return io.ErrClosedPipe.
SessionClosed ==
    /\ tunnel.smuxSession # Nil
    /\ \E k \in 1..Len(closeLog) : \E i \in 1..Len(closeLog[k]) :
           closeLog[k][i].rid = tunnel.smuxSession

\* Handle on a session that hands every caller the same stream.
HandleOpenedShared(b, sid) ==
    [b EXCEPT !.st = "copying", !.sid = 1, !.l2s = "copy", !.s2l = "copy"]

\* Handle when the stream was opened: wg.Add(2) and the two copy goroutines.
HandleOpened(b, sid) ==
    [b EXCEPT !.st = "copying", !.sid = sid, !.l2s = "copy", !.s2l = "copy"]

OpenStream(c) ==
    /\ br[c].st = "spawned"
    /\ \/ /\ ~SessionClosed
          /\ br' = [br EXCEPT ![c] = HandleOpened(br[c], nextSid)]
          /\ nextSid' = nextSid + 1
       \/ /\ CanHappen \/ SessionClosed
          /\ br' = [br EXCEPT ![c] = HandleOpenFailed(br[c])]
          /\ UNCHANGED nextSid
    /\ UNCHANGED <<o, pc, ln, startRet, startErr, tunnel, opened, closeLog, invoked,
                   acceptErrs, afterErr>>

\* The peers of a bridge: the local client on lconn, the server on the stream.
\* What a peer does after the task reading from it has ended is never read.
LocalWrite(c) ==
    /\ br[c].l2s = "copy"
    /\ ~br[c].lEOF
    /\ CanHappen
    /\ br' = [br EXCEPT ![c].lWritten = @ + 1]
    /\ UNCHANGED <<o, pc, ln, startRet, startErr, tunnel, opened, closeLog, invoked,
                   acceptErrs, afterErr, nextSid>>

LocalCloseWrite(c) ==
    /\ br[c].l2s = "copy"
    /\ ~br[c].lEOF
    /\ CanHappen
    /\ br' = [br EXCEPT ![c].lEOF = TRUE]
    /\ UNCHANGED <<o, pc, ln, startRet, startErr, tunnel, opened, closeLog, invoked,
                   acceptErrs, afterErr, nextSid>>

RemoteWrite(c) ==
    /\ br[c].s2l = "copy"
    /\ ~br[c].rFin
    /\ CanHappen
    /\ br' = [br EXCEPT ![c].rWritten = @ + 1]
    /\ UNCHANGED <<o, pc, ln, startRet, startErr, tunnel, opened, closeLog, invoked,
                   acceptErrs, afterErr, nextSid>>

RemoteClose(c) ==
    /\ br[c].l2s = "copy" \/ br[c].s2l = "copy"
    /\ ~br[c].rFin
    /\ CanHappen
    /\ br' = [br EXCEPT ![c].rFin = TRUE]
    /\ UNCHANGED <<o, pc, ln, startRet, startErr, tunnel, opened, closeLog, invoked,
                   acceptErrs, afterErr, nextSid>>

\* The errors a failing read or write gives io.Copy besides end-of-file.
FaultKinds == {"other"}

\* `if err == io.EOF { err = nil }`
MapEOF(err) == IF err = "EOF" THEN "nil" ELSE err

\* `if err != nil && !errors.Is(err, io.ErrClosedPipe) { log.Printf(...) }`
Logged(err) == err \notin {"none", "nil", "ErrClosedPipe"}

\* io.Copy(stream, lconn) returned err: the task goes on to lconn.CloseRead().
L2SCopyEnded(b, err) == [b EXCEPT !.l2sErr = MapEOF(err), !.l2s = "closing"]

\* io.Copy(lconn, stream) returned err: the task goes on to lconn.CloseWrite().
S2LCopyEnded(b, err) == [b EXCEPT !.s2lErr = MapEOF(err), !.s2l = "closing"]

\* A copy loop that writes the byte it read twice.
L2SMoveTwice(b) ==
    [b EXCEPT !.lRead = @ + 1, !.sOut = Append(Append(@, b.lRead + 1), b.lRead + 1)]

\* One byte through io.Copy(stream, lconn): read from lconn, written to the stream.
L2SMove(b) ==
    [b EXCEPT !.lRead = @ + 1, !.sOut = Append(@, b.lRead + 1)]

\* One byte through io.Copy(lconn, stream): read from the stream, written to lconn.
S2LMove(b) ==
    [b EXCEPT !.sRead = @ + 1, !.lOut = Append(@, b.sRead + 1)]

\* A step of the local-to-stream goroutine inside io.Copy(stream, lconn).
L2SCopy(c) ==
    /\ br[c].l2s = "copy"
    /\ \/ \* a byte is read from lconn and written to the stream
          /\ br[c].lRead < br[c].lWritten
          /\ ~SessionClosed
          /\ br' = [br EXCEPT ![c] = L2SMove(br[c])]
       \/ \* the byte is read, and Stream.Write returns io.EOF (the remote closed)
          \* or io.ErrClosedPipe (the session is closed)
          /\ br[c].lRead < br[c].lWritten
          /\ br[c].rFin \/ SessionClosed
          /\ br' = [br EXCEPT ![c] = L2SCopyEnded([br[c] EXCEPT !.lRead = @ + 1],
                                    IF SessionClosed THEN "ErrClosedPipe" ELSE "EOF")]
       \/ \* lconn is at end-of-file: io.Copy returns nil
          /\ br[c].lEOF
          /\ br[c].lRead = br[c].lWritten
          /\ br' = [br EXCEPT ![c] = L2SCopyEnded(br[c], "nil")]
       \/ \* the read or the write fails
          /\ CanHappen
          /\ \E k \in FaultKinds : br' = [br EXCEPT ![c] = L2SCopyEnded(br[c], k)]
    /\ UNCHANGED <<o, pc, ln, startRet, startErr, tunnel, opened, closeLog, invoked,
                   acceptErrs, afterErr, nextSid>>

\* A local-to-stream goroutine that ends without stream.Close().
L2SFinishStreamOpen(b) == [b EXCEPT !.rdClosed = TRUE, !.l2s = "done"]

\* The end of the local-to-stream goroutine: lconn.CloseRead(), stream.Close(),
\* then the deferred wg.Done().
L2SFinish(b) == [b EXCEPT !.rdClosed = TRUE, !.sCloses = @ + 1, !.l2s = "done"]

L2SClose(c) ==
    /\ br[c].l2s = "closing"
    /\ br' = [br EXCEPT ![c] = L2SFinish(br[c])]
    /\ UNCHANGED <<o, pc, ln, startRet, startErr, tunnel, opened, closeLog, invoked,
                   acceptErrs, afterErr, nextSid>>

\* A step of the stream-to-local goroutine inside io.Copy(lconn, stream).  A
\* stream closed on this side gives the reader io.ErrClosedPipe, and what it
\* had buffered is dropped.
S2LCopy(c) ==
    /\ br[c].s2l = "copy"
    /\ \/ /\ br[c].sCloses > 0 \/ SessionClosed
          /\ br' = [br EXCEPT ![c] = S2LCopyEnded(br[c], "ErrClosedPipe")]
       \/ /\ br[c].sCloses = 0
          /\ br[c].sRead < br[c].rWritten
          /\ br' = [br EXCEPT ![c] = S2LMove(br[c])]
       \/ \* the remote closed the stream and all it wrote was read
          /\ br[c].rFin
          /\ br[c].sCloses > 0 \/ br[c].sRead = br[c].rWritten
          /\ br' = [br EXCEPT ![c] = S2LCopyEnded(br[c], "EOF")]
       \/ /\ CanHappen
          /\ \E k \in FaultKinds : br' = [br EXCEPT ![c] = S2LCopyEnded(br[c], k)]
    /\ UNCHANGED <<o, pc, ln, startRet, startErr, tunnel, opened, closeLog, invoked,
                   acceptErrs, afterErr, nextSid>>

\* A stream-to-local goroutine that closes the stream as the other one does.
S2LFinishClosing(b) == [b EXCEPT !.wrClosed = TRUE, !.sCloses = @ + 1, !.s2l = "done"]

\* The end of the stream-to-local goroutine: lconn.CloseWrite(), then wg.Done().
S2LFinish(b) == [b EXCEPT !.wrClosed = TRUE, !.s2l = "done"]

S2LClose(c) ==
    /\ br[c].s2l = "closing"
    /\ br' = [br EXCEPT ![c] = S2LFinish(br[c])]
    /\ UNCHANGED <<o, pc, ln, startRet, startErr, tunnel, opened, closeLog, invoked,
                   acceptErrs, afterErr, nextSid>>

\* A wait group of one: wg.Wait() returns when the local-to-stream goroutine ends.
WaitDoneFirst(b) == b.l2s = "done"

\* wg.Wait() returns once both goroutines have called wg.Done().
WaitDone(b) == b.l2s = "done" /\ b.s2l = "done"

\* Handle returns: its deferred stream.Close(), then the goroutine's deferred
\* local.Close().  The error it returns is the one of OpenStream, nil here.
HandleReturn(b) == [b EXCEPT !.sCloses = @ + 1, !.closed = TRUE, !.st = "done"]

BridgeFinish(c) ==
    /\ br[c].st = "copying"
    /\ WaitDone(br[c])
    /\ br' = [br EXCEPT ![c] = HandleReturn(br[c])]
    /\ UNCHANGED <<o, pc, ln, startRet, startErr, tunnel, opened, closeLog, invoked,
                   acceptErrs, afterErr, nextSid>>

\* ------------------------------------------------- the Tunnel, used directly

\* The first k stages run in the order of Start on NewTunnel(rt), each succeeding.
RECURSIVE BroughtUp(_, _)
BroughtUp(rt, k) ==
    IF k = 0
    THEN Result(NewTunnel(rt), <<>>, "nil")
    ELSE LET p == BroughtUp(rt, k - 1) IN
         IF p.ret = "nil" THEN Initiate(Stages[k], p.t, p.opened, "ok") ELSE p

\* A Tunnel in any state of its bring-up (no stage run, the first k stages run,
\* all of them run), whose exported methods a caller then invokes in any order;
\* a caller that recovers from a panic can go on using the tunnel.
InitTunnel ==
    /\ \E rt \in {ResolverTypeUDP, ResolverTypeDOT}, k \in 0..Len(Stages) :
         /\ BroughtUp(rt, k).ret = "nil"
         /\ o = NewOutbound(<<rt>>, <<"server">>)
         /\ tunnel = BroughtUp(rt, k).t
         /\ opened = BroughtUp(rt, k).opened
         /\ invoked = [i \in 1..k |-> Invocation(Stages[i], "nil", "Start")]
    /\ pc = "api"
    /\ InitCommon

ByCaller(e) == e.by = "caller"

CallInitiate(stage) ==
    /\ pc = "api"
    /\ Len(SelectSeq(invoked, ByCaller)) < MaxCalls
    /\ \E out \in Outcomes(stage) :
         LET r == Initiate(stage, tunnel, opened, out) IN
         /\ tunnel' = r.t
         /\ opened' = r.opened
         /\ invoked' = Append(invoked, Invocation(stage, r.ret, "caller"))
    /\ UNCHANGED <<o, pc, ln, startRet, startErr, closeLog, acceptErrs, afterErr,
                   nextSid, br>>

CallInitiateResolverConnection == CallInitiate("InitiateResolverConnection")
CallInitiateDNSPacketConn == CallInitiate("InitiateDNSPacketConn")
CallInitiateKCPConn == CallInitiate("InitiateKCPConn")
CallInitiateNoiseChannel == CallInitiate("InitiateNoiseChannel")
CallInitiateSmuxSession == CallInitiate("InitiateSmuxSession")

CallClose ==
    /\ pc = "api"
    /\ Len(closeLog) < MaxCloses
    /\ \E failing \in CloseFailures(tunnel, closeLog) :
         closeLog' = Append(closeLog, Close(tunnel, failing))
    /\ UNCHANGED <<o, pc, ln, startRet, startErr, tunnel, opened, invoked, acceptErrs,
                   afterErr, nextSid, br>>

\* ------------------------------------- Tunnel.Close while bridges are running

\* A Tunnel brought up as Start does, whose Handle and Close a caller then
\* invokes from goroutines of its own.
InitBroughtUp ==
    /\ o = NewOutbound(<<ResolverTypeUDP>>, <<"server">>)
    /\ tunnel = BroughtUp(ResolverTypeUDP, Len(Stages)).t
    /\ opened = BroughtUp(ResolverTypeUDP, Len(Stages)).opened
    /\ invoked = [i \in 1..Len(Stages) |-> Invocation(Stages[i], "nil", "Start")]
    /\ pc = "api"
    /\ InitCommon

\* `go t.Handle(lconn)` on a connection of the caller.
CallHandle ==
    /\ pc = "api"
    /\ \E c \in Conns :
         /\ br[c].st = "free"
         /\ \A d \in Conns : d < c => br[d].st # "free"
         /\ br' = [br EXCEPT ![c] = Spawn(br[c])]
    /\ UNCHANGED <<o, pc, ln, startRet, startErr, tunnel, opened, closeLog, invoked,
                   acceptErrs, afterErr, nextSid>>

\* ------------------------------------------------- main: the configuration

\* NewResolver: only the UDP kind is accepted.
NewResolver(resolverType) ==
    IF resolverType = ResolverTypeUDP
    THEN [ret |-> "nil", r |-> resolverType]
    ELSE [ret |-> "err", r |-> Nil]

\* A parsed dns.Name, known here by the capacity the DNS transport gives it.
\* An address dns.ParseName refuses has no capacity.
Domain(capacity) == [parses |-> TRUE, capacity |-> capacity]
InvalidAddr == [parses |-> FALSE, capacity |-> 0]
dnsNameCapacity(domain) == domain.capacity

\* The addresses and keys NewTunnelServer can be given.
Addrs == {InvalidAddr} \cup {Domain(c) : c \in 0..MaxCapacity}
PubKeyStrings == {"key", "badkey"}

ClientIDSize == 8
numPadding == 3
MinMTU == 80

Failed(err) == [ret |-> "err", err |-> err, ts |-> Nil]

\* NewTunnelServer with the comparison `mtu <= 80`.
NewTunnelServerOffByOne(addr, pubKeyString) ==
    IF ~addr.parses THEN Failed([msg |-> "invalid domain"])
    ELSE IF pubKeyString = "badkey" THEN Failed([msg |-> "pubkey format error"])
    ELSE LET mtu == dnsNameCapacity(addr) - ClientIDSize - 1 - numPadding - 1 IN
         IF mtu <= MinMTU
         THEN Failed([msg |-> "leaves only", domain |-> addr, mtu |-> mtu])
         ELSE [ret |-> "nil", err |-> Nil,
               ts |-> [Addr |-> addr, PubKey |-> pubKeyString, MTU |-> mtu]]

\* NewTunnelServer: dns.ParseName, noise.DecodeKey, then the MTU left by the
\* client id, the padding length prefix, the padding and the data length prefix.
NewTunnelServer(addr, pubKeyString) ==
    IF ~addr.parses THEN Failed([msg |-> "invalid domain"])
    ELSE IF pubKeyString = "badkey" THEN Failed([msg |-> "pubkey format error"])
    ELSE LET mtu == dnsNameCapacity(addr) - ClientIDSize - 1 - numPadding - 1 IN
         IF mtu < MinMTU
         THEN Failed([msg |-> "leaves only", domain |-> addr, mtu |-> mtu])
         ELSE [ret |-> "nil", err |-> Nil,
               ts |-> [Addr |-> addr, PubKey |-> pubKeyString, MTU |-> mtu]]

\* main has parsed its flags; `o` holds its resolvers and tunnelServers lists.
InitMain ==
    /\ o = NewOutbound(<<>>, <<>>)
    /\ pc = "main.resolvers"
    /\ tunnel = NoTunnel
    /\ opened = <<>>
    /\ invoked = <<>>
    /\ InitCommon

\* `if udpAddr != "" { resolver, err := client.NewResolver(ResolverTypeUDP, udpAddr) ... }`
MainResolvers ==
    /\ pc = "main.resolvers"
    /\ \E udpAddr \in {"", "addr"} :
         LET r == NewResolver(ResolverTypeUDP) IN
         IF udpAddr = ""
         THEN pc' = "main.tunnelServer" /\ UNCHANGED <<o, startRet, startErr>>
         ELSE IF r.ret = "err"
         THEN /\ pc' = "exit" /\ startRet' = "exit"
              /\ startErr' = [msg |-> "invalid -udp address"] /\ UNCHANGED o
         ELSE /\ pc' = "main.tunnelServer"
              /\ o' = [o EXCEPT !.Resolvers = Append(@, r.r)]
              /\ UNCHANGED <<startRet, startErr>>
    /\ UNCHANGED <<ln, tunnel, opened, closeLog, invoked, acceptErrs, afterErr,
                   nextSid, br>>

\* `tServer, err := client.NewTunnelServer(flag.Arg(0), pubkeyString)`
MainNewTunnelServer ==
    /\ pc = "main.tunnelServer"
    /\ \E addr \in Addrs, pubKeyString \in PubKeyStrings :
         LET r == NewTunnelServer(addr, pubKeyString) IN
         IF r.ret = "err"
         THEN /\ pc' = "exit" /\ startRet' = "exit"
              /\ startErr' = r.err /\ UNCHANGED o
         ELSE /\ pc' = "main.outbound"
              /\ o' = [o EXCEPT !.TunnelServers = <<r.ts>>]
              /\ UNCHANGED <<startRet, startErr>>
    /\ UNCHANGED <<ln, tunnel, opened, closeLog, invoked, acceptErrs, afterErr,
                   nextSid, br>>

\* `ob := client.NewOutbound(resolvers, tunnelServers)`; ob.Start is Spec.
MainNewOutbound ==
    /\ pc = "main.outbound"
    /\ o' = NewOutbound(o.Resolvers, o.TunnelServers)
    /\ pc' = "configured"
    /\ UNCHANGED <<ln, startRet, startErr, tunnel, opened, closeLog, invoked,
                   acceptErrs, afterErr, nextSid, br>>

\* ---------------------------------------------------------- specifications

Next ==
    \/ StartResolveTCPAddr
    \/ StartListenTCP
    \/ StartNewTunnel
    \/ StartInitiateResolverConnection
    \/ StartInitiateDNSPacketConn
    \/ StartInitiateKCPConn
    \/ StartInitiateNoiseChannel
    \/ StartInitiateSmuxSession
    \/ AcceptFail
    \/ AcceptOk
    \/ \E c \in Conns : OpenStream(c)
    \/ \E c \in Conns : LocalWrite(c)
    \/ \E c \in Conns : LocalCloseWrite(c)
    \/ \E c \in Conns : RemoteWrite(c)
    \/ \E c \in Conns : RemoteClose(c)
    \/ \E c \in Conns : L2SCopy(c)
    \/ \E c \in Conns : L2SClose(c)
    \/ \E c \in Conns : S2LCopy(c)
    \/ \E c \in Conns : S2LClose(c)
    \/ \E c \in Conns : BridgeFinish(c)

Spec == Init /\ [][Next]_vars

\* The Stream.Read of the stream-to-local goroutine returning on a closed stream.
S2LUnblocked(c) == br[c].sCloses > 0 /\ S2LCopy(c)

\* The goroutines of a bridge are scheduled: one that can run does run.  A
\* goroutine blocked in a read waits on its peer, which is under no obligation.
Scheduling ==
    \A c \in Conns :
        /\ WF_vars(L2SClose(c))
        /\ WF_vars(S2LUnblocked(c))
        /\ WF_vars(S2LClose(c))
        /\ WF_vars(BridgeFinish(c))

\* Start has brought the tunnel up and is in its accept loop.
InitServing ==
    /\ o = NewOutbound(<<ResolverTypeUDP>>, <<"server">>)
    /\ tunnel = BroughtUp(ResolverTypeUDP, Len(Stages)).t
    /\ opened = BroughtUp(ResolverTypeUDP, Len(Stages)).opened
    /\ invoked = [i \in 1..Len(Stages) |-> Invocation(Stages[i], "nil", "Start")]
    /\ pc = "Serving"
    /\ ln = "open"
    /\ startRet = "none"
    /\ startErr = "none"
    /\ closeLog = <<>>
    /\ acceptErrs = 0
    /\ afterErr = {}
    /\ nextSid = 1
    /\ br = [c \in Conns |-> FreeBridge]

NextServing ==
    \/ AcceptFail
    \/ AcceptOk
    \/ \E c \in Conns : OpenStream(c)
    \/ \E c \in Conns : LocalWrite(c)
    \/ \E c \in Conns : LocalCloseWrite(c)
    \/ \E c \in Conns : RemoteWrite(c)
    \/ \E c \in Conns : RemoteClose(c)
    \/ \E c \in Conns : L2SCopy(c)
    \/ \E c \in Conns : L2SClose(c)
    \/ \E c \in Conns : S2LCopy(c)
    \/ \E c \in Conns : S2LClose(c)
    \/ \E c \in Conns : BridgeFinish(c)

SpecFair == InitServing /\ [][NextServing]_vars /\ Scheduling

NextTunnel ==
    \/ CallInitiateResolverConnection
    \/ CallInitiateDNSPacketConn
    \/ CallInitiateKCPConn
    \/ CallInitiateNoiseChannel
    \/ CallInitiateSmuxSession
    \/ CallClose

SpecTunnel == InitTunnel /\ [][NextTunnel]_vars

NextShutdown ==
    \/ CallHandle
    \/ CallClose
    \/ \E c \in Conns : OpenStream(c)
    \/ \E c \in Conns : LocalWrite(c)
    \/ \E c \in Conns : LocalCloseWrite(c)
    \/ \E c \in Conns : RemoteWrite(c)
    \/ \E c \in Conns : RemoteClose(c)
    \/ \E c \in Conns : L2SCopy(c)
    \/ \E c \in Conns : L2SClose(c)
    \/ \E c \in Conns : S2LCopy(c)
    \/ \E c \in Conns : S2LClose(c)
    \/ \E c \in Conns : BridgeFinish(c)

SpecShutdown == InitBroughtUp /\ [][NextShutdown]_vars

NextMain ==
    \/ MainResolvers
    \/ MainNewTunnelServer
    \/ MainNewOutbound

SpecMain == InitMain /\ [][NextMain]_vars

\* ------------------------------------------------------------- properties

RECURSIVE Flatten(_)
Flatten(ss) == IF ss = <<>> THEN <<>> ELSE Head(ss) \o Flatten(Tail(ss))

\* How many times Close() was called on resource r by Tunnel.Close.
CloseCalls(r) ==
    Cardinality({i \in 1..Len(Flatten(closeLog)) : Flatten(closeLog)[i].rid = r})

AllNil(k) == \A i \in 1..k : invoked[i].ret = "nil"
Accepted == {c \in Conns : br[c].st # "free"}
StartEnded == startRet # "none"
StageFailed == invoked # <<>> /\ invoked[Len(invoked)].ret # "nil"

\* C1: Start invokes the stages in the fixed order InitiateResolverConnection,
\* InitiateDNSPacketConn, InitiateKCPConn, InitiateNoiseChannel,
\* InitiateSmuxSession, each only after every earlier one returned nil; once a
\* stage has failed none is invoked after it, the accept loop is not entered
\* and no connection is accepted.
C1_BringUpOrder ==
    /\ Len(invoked) <= Len(Stages)
    /\ \A i \in 1..Len(invoked) : invoked[i].op = Stages[i]
    /\ AllNil(Len(invoked) - 1)
    /\ pc \in StageSet => Len(invoked) = StageIndex(pc) - 1 /\ AllNil(Len(invoked))
    /\ (pc = "Serving" \/ Accepted # {}) => Len(invoked) = Len(Stages) /\ AllNil(Len(Stages))
    /\ StageFailed => pc \in {"returned", "panicked"} /\ Accepted = {}

\* C1 witness: the fourth stage failed after three succeeded, and Start is over.
C1_Witness ==
    /\ Len(invoked) = 4
    /\ invoked[4].ret = "err"
    /\ pc = "returned"

\* C2: when a stage has failed, Start has returned an error (it did not panic),
\* the listener is closed and every resource opened during the bring-up has
\* been closed.
C2_FailureClosesEverything ==
    (StartEnded /\ StageFailed) =>
        /\ startRet = "err"
        /\ ln = "closed"
        /\ \A r \in 1..Len(opened) : CloseCalls(r) >= 1

\* C3: within one Tunnel.Close call the handles are closed from the top layer
\* down: a resource closed earlier is of a higher layer than one closed later.
C3_CloseTopDown ==
    \A k \in 1..Len(closeLog) :
        \A i, j \in 1..Len(closeLog[k]) :
            i < j => Rank(opened[closeLog[k][i].rid]) > Rank(opened[closeLog[k][j].rid])

\* C4: over all the Tunnel.Close calls made on a tunnel, Close() is called on
\* each resource at most once.
C4_CloseAtMostOnce ==
    \A r \in 1..Len(opened) : CloseCalls(r) <= 1

\* C5: Start on an Outbound with an empty Resolvers or TunnelServers list, once
\* it has its listener, ends by returning the error NoEndpointsConfigured.
C5_NoEndpointsConfigured ==
    (StartEnded /\ ln # "none" /\ (o.Resolvers = <<>> \/ o.TunnelServers = <<>>)) =>
        startRet = "err" /\ startErr = "NoEndpointsConfigured"

\* C6: InitiateKCPConn never panics: whatever the ordered transport answers, the
\* unit size refused included, the call returns nil or an error.
C6_MtuRefusalIsAnError ==
    \A i \in 1..Len(invoked) :
        invoked[i].op = "InitiateKCPConn" => invoked[i].ret \in {"nil", "err"}

\* The bytes 1..n in order: what a peer that wrote n bytes has written.
Bytes(n) == [i \in 1..n |-> i]

\* The local peer closed its write half and the bridge read the end-of-file.
HalfClosed(b) == b.lEOF /\ b.l2s # "copy" /\ b.l2sErr = "nil" /\ b.lRead = b.lWritten

\* C7: after the bridge read end-of-file from lconn, and while the remote has
\* not closed the stream: once the local-to-stream task is done the stream was
\* closed behind all the bytes the local peer wrote, and when the
\* stream-to-local copy has ended without an I/O error every byte the remote
\* wrote has been written to lconn.
C7_HalfClosePreserved ==
    \A c \in Conns :
        (HalfClosed(br[c]) /\ ~br[c].rFin) =>
            /\ br[c].l2s = "done" => br[c].sCloses > 0 /\ br[c].sOut = Bytes(br[c].lWritten)
            /\ (br[c].s2l # "copy" /\ br[c].s2lErr # "other") =>
                   br[c].lOut = Bytes(br[c].rWritten)

C9_AcceptLoopResilient ==
    /\ [][pc = "Serving" =>
            pc' = "Serving" /\ ln' = "open" /\ startRet' = "none"]_vars
    /\ [](afterErr \subseteq Accepted)

\* C9 witness: an accept failed, and a connection accepted after it is bridged.
C9_Witness ==
    /\ acceptErrs > 0
    /\ \E c \in afterErr : br[c].st = "copying"

\* The step in which OpenStream fails for the connection c.
OpenFails(c) == br[c].st = "spawned" /\ br'[c].st = "openFailed"

\* C10: the step in which OpenStream fails for a connection closes that
\* connection and reports the error, gives it no stream and starts no copy
\* task, and leaves the tunnel's handles, the resources, the session's next
\* stream id and every other bridge as they were; no copy task starts later.
C10_StreamOpenFailure ==
    /\ [][\A c \in Conns : OpenFails(c) =>
            /\ br'[c].closed /\ br'[c].reported
            /\ br'[c].sid = Nil /\ br'[c].l2s = "idle" /\ br'[c].s2l = "idle"
            /\ tunnel' = tunnel /\ opened' = opened /\ closeLog' = closeLog
            /\ nextSid' = nextSid
            /\ \A d \in Conns \ {c} : br'[d] = br[d]]_vars
    /\ [](\A c \in Conns : br[c].st = "openFailed" =>
            /\ br[c].closed /\ br[c].reported
            /\ br[c].l2s = "idle" /\ br[c].s2l = "idle" /\ br[c].sid = Nil)

\* C10 witness: OpenStream failed for one connection while another one is
\* bridged and has carried a byte to its stream.
C10_Witness ==
    \E c, d \in Conns :
        /\ br[c].st = "openFailed"
        /\ br[d].st = "copying"
        /\ br[d].sOut # <<>>

\* The bridges that hold a stream.
Paired == {c \in Conns : br[c].sid # Nil}

\* C11: the accepted connections are bridged concurrently, each paired with one
\* stream of its own for its whole lifetime: no two connections hold the same
\* stream, the stream of a connection is never exchanged for another, and a
\* step of one bridge (closing its stream or its connection included) leaves
\* the stream state, connection state and data of every other bridge as they were.
C11_BridgesIndependent ==
    /\ [](\A c \in Paired, d \in Paired : c # d => br[c].sid # br[d].sid)
    /\ [][/\ \A c \in Paired : br'[c].sid = br[c].sid
          /\ \A c \in Conns, d \in Conns :
               c # d /\ br'[c] # br[c] => br'[d] = br[d]]_vars

\* Two bridges at once: one has closed its stream, the other still copies and
\* has carried a byte.
C11_Witness ==
    \E c \in Paired, d \in Paired :
        /\ c # d
        /\ br[c].sCloses > 0
        /\ br[d].l2s = "copy" /\ br[d].s2l = "copy" /\ br[d].sCloses = 0
        /\ br[d].sOut # <<>>

IsPrefix(s, t) == Len(s) <= Len(t) /\ \A i \in 1..Len(s) : s[i] = t[i]

\* C12: in every reachable state and for every bridge, what the bridge has
\* written to the stream is a prefix of what the local peer wrote to lconn, and
\* what it has written to lconn is a prefix of what the remote wrote to the
\* stream: nothing modified, reordered or duplicated, nothing at all for an
\* empty payload.
C12_BytesArePrefix ==
    \A c \in Conns :
        /\ IsPrefix(br[c].sOut, Bytes(br[c].lWritten))
        /\ IsPrefix(br[c].lOut, Bytes(br[c].rWritten))

\* A bridge that has carried a byte in each direction.
C12_Witness == \E c \in Conns : br[c].sOut # <<>> /\ br[c].lOut # <<>>

\* The value the MTU of a domain of capacity C is to have.
DerivedMTU(C) == C - 8 - 1 - numPadding - 1

\* C13: for every capacity C, NewTunnelServer derives the MTU
\* C - 8 - 1 - numPadding - 1 and fails for it exactly when it is below 80: a
\* TunnelServer that was constructed has that MTU and it is at least 80, and a
\* construction refused for its MTU had that MTU and it was below 80.
C13_MtuFormula ==
    /\ \A i \in 1..Len(o.TunnelServers) :
         /\ o.TunnelServers[i].MTU = DerivedMTU(dnsNameCapacity(o.TunnelServers[i].Addr))
         /\ o.TunnelServers[i].MTU >= 80
    /\ pc = "exit" /\ startErr.msg = "leaves only" =>
         /\ startErr.mtu = DerivedMTU(dnsNameCapacity(startErr.domain))
         /\ startErr.mtu < 80

\* A TunnelServer constructed with the smallest MTU allowed.
C13_Witness ==
    /\ pc = "configured"
    /\ o.TunnelServers # <<>>
    /\ o.TunnelServers[1].MTU = 80

\* The calls of a bring-up operation that stored its handle.
Stored(stage) == {i \in 1..Len(invoked) : invoked[i].op = stage /\ invoked[i].ret = "nil"}

\* C14: whatever sequence of calls is made to the five bring-up operations,
\* each handle is assigned at most once, and only when the handle of the layer
\* below it is set: no set handle is replaced by a later call.
C14_AssignedOnceInOrder ==
    /\ \A s \in StageSet : Cardinality(Stored(s)) <= 1
    /\ \A i \in 2..Len(Layers) : tunnel[Layers[i]] # Nil => tunnel[Layers[i - 1]] # Nil

\* C15: the completion of the stream-to-local task signals write-closed on lconn
\* and leaves the open/closed state of the stream as it was; the stream is
\* closed only by the completion of the local-to-stream task, which also
\* signals read-closed, or by the end of the whole bridge.
C15_OnlyL2SClosesStream ==
    [][\A c \in Conns :
         /\ br[c].s2l # "done" /\ br'[c].s2l = "done" =>
              br'[c].wrClosed /\ br'[c].sCloses = br[c].sCloses
         /\ br'[c].sCloses # br[c].sCloses =>
              \/ br[c].l2s # "done" /\ br'[c].l2s = "done" /\ br'[c].rdClosed
              \/ br[c].st = "copying" /\ br'[c].st = "done"]_vars

\* The stream-to-local task has completed and the stream is still open, the
\* local-to-stream task still copying.
C15_Witness ==
    \E c \in Conns :
        /\ br[c].s2l = "done" /\ br[c].wrClosed
        /\ br[c].sCloses = 0
        /\ br[c].l2s = "copy"

\* C16: a copy error other than end-of-file and closed-pipe in one direction
\* is logged and does not abort the other direction of the bridge, whose copy
\* task runs until its own source ends (it is never cut off by the closing of
\* the stream); the session stays open and Handle reports no failure.
C16_CopyErrorIsolated ==
    \A c \in Conns :
        Logged(br[c].l2sErr) \/ Logged(br[c].s2lErr) =>
            /\ br[c].s2lErr # "ErrClosedPipe"
            /\ ~br[c].reported
            /\ closeLog = <<>>

\* C17: Tunnel.Close always runs to completion: a call closes every handle that
\* is present, those after a Close() that returned an error included: a
\* failing Close() neither stops the teardown nor ends the call.
C17_CloseRunsToCompletion ==
    [][Len(closeLog') > Len(closeLog) =>
         LET done == closeLog'[Len(closeLog')] IN
         /\ Len(done) = Len(Present(tunnel'))
         /\ \A i \in 1..Len(done) : done[i].rid = Present(tunnel')[i]]_vars

\* A Tunnel.Close call in which a Close() failed and a later handle was closed.
C17_Witness ==
    \E k \in 1..Len(closeLog) : \E i, j \in 1..Len(closeLog[k]) :
        i < j /\ closeLog[k][i].err = "err"

\* Steps of bridge c that use the session: t.smuxSession.OpenStream(), a byte
\* handed to Stream.Write, a Stream.Read that returns.
OpensStream(c) == br[c].st = "spawned" /\ br'[c].st # "spawned"
WritesStream(c) == br'[c].lRead > br[c].lRead
ReadsStream(c) ==
    br[c].s2l = "copy" /\ (br'[c].sRead > br[c].sRead \/ br'[c].s2l = "closing")

\* C18: however Tunnel.Close is interleaved with running Handle calls, no
\* bridge opens a stream on, or copies over, a session that Close has closed:
\* once the session is closed no bridge makes a step that uses it.
C18_NoUseAfterClose ==
    [][SessionClosed =>
         \A c \in Conns : ~OpensStream(c) /\ ~WritesStream(c) /\ ~ReadsStream(c)]_vars

\* C19: once the local-to-stream copy of a bridge has ended, the bridge
\* eventually finishes: the stream is closed, the stream-to-local task
\* completes, Handle returns and lconn is closed.  Conversely no bridge
\* finishes while its local-to-stream task has not ended, whatever the remote
\* has done to the stream.
C19_BridgeFinishes ==
    /\ \A c \in Conns :
         (br[c].l2s \in {"closing", "done"}) ~>
             (br[c].st = "done" /\ br[c].sCloses > 0 /\ br[c].s2l = "done" /\ br[c].closed)
    /\ [](\A c \in Conns : br[c].st = "done" => br[c].l2s = "done")

\* A finished bridge whose stream-to-local task was unblocked by the closing of
\* the stream, the remote not having ended it.
C19_Witness ==
    \E c \in Conns :
        br[c].st = "done" /\ br[c].closed /\ br[c].s2lErr = "ErrClosedPipe" /\ ~br[c].rFin

\* C20: a bring-up operation that returns an error leaves every handle of the
\* tunnel (resolver socket and address, DNS transport, ordered transport,
\* secure channel, multiplex session) exactly as it was before the call.
C20_ErrorLeavesHandles ==
    [][(Len(invoked') > Len(invoked) /\ invoked'[Len(invoked')].ret = "err") =>
           tunnel' = tunnel]_vars

\* A bring-up operation that returned an error on a tunnel that has handles.
C20_Witness ==
    /\ tunnel.resolverConn # Nil
    /\ invoked # <<>>
    /\ invoked[Len(invoked)].ret = "err"

====
